---- MODULE Spec2Model ----
(***************************************************************************)
(* Shape-and-value model of the DFNet inpainting network of src/model.py.  *)
(*                                                                         *)
(* A tensor is its shape [n, c, h, w]; an exception raised by the          *)
(* framework is an error record [err |-> name] that every later call       *)
(* propagates (Python unwinds the forward pass).  A module is a record     *)
(* holding the fields its constructor sets.  Pixel values are fixed-point  *)
(* samples in units of 1/Q; the outputs of a sigmoid are any value of      *)
(* 0..Q since they depend on the trained weights.  Every input is a batch  *)
(* of two, so that batch statistics exist at any spatial size and the      *)
(* normalisation layers keep the shape.                                    *)
(***************************************************************************)
EXTENDS Integers, Sequences, FiniteSets, TLC

\* ---------------------------------------------------------------- bounds
MaxSize == 4
MaxEn == 2
MaxDe == 2
Q == 2

\* ---------------------------------------------------------------- helpers
PyNone == "PyNone"

T(n, c, h, w) == [n |-> n, c |-> c, h |-> h, w |-> w]

Err(e) == [err |-> e]

IsErr(x) == "err" \in DOMAIN x

Max(a, b) == IF a >= b THEN a ELSE b

Min(a, b) == IF a <= b THEN a ELSE b

NoneMod == [kind |-> "None"]

IsNone(m) == m.kind = "None"

\* Python truthiness of a constructor argument that is a string or None
Truthy(name) == name # PyNone /\ name # ""

\* Python list indexing with a possibly negative index; 0 when out of range
\* (TLA+ sequences are 1-based, so a valid result is in 1..Len(s))
PyIndex(s, idx) ==
    LET j == IF idx < 0 THEN Len(s) + idx ELSE idx
    IN  IF j >= 0 /\ j < Len(s) THEN j + 1 ELSE 0

\* ------------------------------------------------ factories (lines 7-30)
get_norm(name, out_channels) ==
    IF name = "batch" THEN [kind |-> "BatchNorm2d", num_features |-> out_channels]
    ELSE IF name = "instance" THEN [kind |-> "InstanceNorm2d", num_features |-> out_channels]
    ELSE NoneMod

get_activation(name) ==
    IF name = "relu" THEN [kind |-> "ReLU"]
    ELSE IF name = "elu" THEN [kind |-> "ELU"]
    ELSE IF name = "leaky_relu" THEN [kind |-> "LeakyReLU"]
    ELSE IF name = "tanh" THEN [kind |-> "Tanh"]
    ELSE IF name = "sigmoid" THEN [kind |-> "Sigmoid"]
    ELSE NoneMod

\* ------------------------------------------------ framework layers
Conv2d(in_channels, out_channels, kernel_size, stride, padding, groups, bias) ==
    [kind |-> "Conv2d", in_channels |-> in_channels, out_channels |-> out_channels,
     kernel_size |-> kernel_size, stride |-> stride, padding |-> padding,
     groups |-> groups, bias |-> bias]

ConvOut(s, k, stride, padding) == ((s + 2 * padding - k) \div stride) + 1

Conv2d_forward(m, x) ==
    IF IsErr(x) THEN x
    ELSE IF x.c # m.in_channels THEN Err("RuntimeError")
    ELSE IF x.h + 2 * m.padding < m.kernel_size \/ x.w + 2 * m.padding < m.kernel_size
         THEN Err("RuntimeError")
    ELSE T(x.n, m.out_channels,
           ConvOut(x.h, m.kernel_size, m.stride, m.padding),
           ConvOut(x.w, m.kernel_size, m.stride, m.padding))

Conv2d_params(m) ==
    m.out_channels * (m.in_channels \div m.groups) * m.kernel_size * m.kernel_size
    + (IF m.bias THEN m.out_channels ELSE 0)

ConvTranspose2d(in_channels, out_channels, kernel_size, stride, padding, output_padding) ==
    [kind |-> "ConvTranspose2d", in_channels |-> in_channels, out_channels |-> out_channels,
     kernel_size |-> kernel_size, stride |-> stride, padding |-> padding,
     output_padding |-> output_padding]

ConvTransposeOut(s, k, stride, padding, output_padding) ==
    (s - 1) * stride - 2 * padding + (k - 1) + output_padding + 1

ConvTranspose2d_forward(m, x) ==
    IF IsErr(x) THEN x
    ELSE IF x.c # m.in_channels THEN Err("RuntimeError")
    ELSE LET oh == ConvTransposeOut(x.h, m.kernel_size, m.stride, m.padding, m.output_padding)
             ow == ConvTransposeOut(x.w, m.kernel_size, m.stride, m.padding, m.output_padding)
         IN  IF oh < 1 \/ ow < 1 THEN Err("RuntimeError")
             ELSE T(x.n, m.out_channels, oh, ow)

InterpModes == {"nearest", "bilinear", "bicubic", "area"}

interpolate_NoScale(x, scale, mode) ==
    IF IsErr(x) THEN x
    ELSE IF mode \notin InterpModes THEN Err("NotImplementedError")
    ELSE x

\* F.interpolate(x, scale_factor=scale, mode=mode) on a 4-D tensor
interpolate(x, scale, mode) ==
    IF IsErr(x) THEN x
    ELSE IF mode \notin InterpModes THEN Err("NotImplementedError")
    ELSE T(x.n, x.c, x.h * scale, x.w * scale)

\* torch.cat([a, b], dim=1)
cat(a, b) ==
    IF IsErr(a) THEN a
    ELSE IF IsErr(b) THEN b
    ELSE IF a.n # b.n \/ a.h # b.h \/ a.w # b.w THEN Err("RuntimeError")
    ELSE T(a.n, a.c + b.c, a.h, a.w)

BDim(a, b) == IF a = b THEN a ELSE IF a = 1 THEN b ELSE IF b = 1 THEN a ELSE 0

\* shape of an elementwise binary operation (broadcasting)
Broadcast(a, b) ==
    IF IsErr(a) THEN a
    ELSE IF IsErr(b) THEN b
    ELSE LET r == T(BDim(a.n, b.n), BDim(a.c, b.c), BDim(a.h, b.h), BDim(a.w, b.w))
         IN  IF r.n = 0 \/ r.c = 0 \/ r.h = 0 \/ r.w = 0 THEN Err("RuntimeError") ELSE r

\* out += identity : the result must keep the shape of out
AddInPlace(out, identity) ==
    LET r == Broadcast(out, identity)
    IN  IF IsErr(r) THEN r ELSE IF r # out THEN Err("RuntimeError") ELSE out

\* ------------------------------------ DepthwiseSeparableConv (lines 33-42)
DepthwiseGroups_NoGroups(in_channels) == 1

DepthwiseGroups(in_channels) == in_channels

DepthwiseSeparableConv(in_channels, out_channels, kernel_size, stride, padding) ==
    [kind |-> "DepthwiseSeparableConv",
     depthwise |-> Conv2d(in_channels, in_channels, kernel_size, stride, padding,
                          DepthwiseGroups(in_channels), TRUE),
     pointwise |-> Conv2d(in_channels, out_channels, 1, 1, 0, 1, TRUE)]

DepthwiseSeparableConv_forward(m, x) ==
    Conv2d_forward(m.pointwise, Conv2d_forward(m.depthwise, x))

DepthwiseSeparableConv_params(m) ==
    Conv2d_params(m.depthwise) + Conv2d_params(m.pointwise)

\* ------------------------------------------------ UpBlock (lines 45-59)
UpBlock(mode, scale, channel, kernel_size) ==
    IF mode = "deconv"
    THEN [kind |-> "UpBlock", mode |-> mode,
          up |-> ConvTranspose2d(channel, channel, kernel_size, scale,
                                 kernel_size \div 2, scale - 1)]
    ELSE [kind |-> "UpBlock", mode |-> mode,
          up |-> [kind |-> "upsample", scale |-> scale, mode |-> mode]]

UpBlock_forward(m, x) ==
    IF m.up.kind = "ConvTranspose2d" THEN ConvTranspose2d_forward(m.up, x)
    ELSE interpolate(x, m.up.scale, m.up.mode)

\* ------------------------------------------------ calling a layer
\* module(x): None is not callable; normalisations and activations keep
\* the shape.
Call(m, x) ==
    IF IsErr(x) THEN x
    ELSE CASE m.kind = "None" -> Err("TypeError")
           [] m.kind = "Conv2d" -> Conv2d_forward(m, x)
           [] m.kind = "DepthwiseSeparableConv" -> DepthwiseSeparableConv_forward(m, x)
           [] m.kind = "BatchNorm2d" ->
                IF x.c # m.num_features THEN Err("RuntimeError") ELSE x
           [] OTHER -> x

RECURSIVE Sequential_forward(_, _)
\* nn.Sequential.forward: feed x through the layers in order
Sequential_forward(layers, x) ==
    IF layers = <<>> THEN x
    ELSE Sequential_forward(Tail(layers), Call(Head(layers), x))

\* ------------------------------------------------ ResNetBlock (lines 63-89)
ResNetBlock(in_channels, out_channels, stride, downsample, normalization, activation) ==
    [kind |-> "ResNetBlock",
     conv1 |-> Conv2d(in_channels, out_channels, 3, stride, 1, 1, FALSE),
     bn1 |-> get_norm(normalization, out_channels),
     activation |-> get_activation(activation),
     conv2 |-> Conv2d(out_channels, out_channels, 3, 1, 1, 1, FALSE),
     bn2 |-> get_norm(normalization, out_channels),
     downsample |-> downsample]

ResNetBlock_forward(m, x) ==
    LET out1 == Call(m.activation, Call(m.bn1, Conv2d_forward(m.conv1, x)))
        out2 == Call(m.bn2, Conv2d_forward(m.conv2, out1))
        identity == IF IsErr(out2) THEN out2
                    ELSE IF ~IsNone(m.downsample) THEN Sequential_forward(m.downsample.layers, x)
                    ELSE x
        sum == IF IsErr(out2) THEN out2
               ELSE IF IsErr(identity) THEN identity
               ELSE AddInPlace(out2, identity)
    IN  Call(m.activation, sum)

\* ------------------------------------------ ResNetEncodeBlock (lines 93-105)
ResNetEncodeBlock(in_channels, out_channels, stride, normalization, activation) ==
    LET downsample == [kind |-> "Sequential",
                       layers |-> << Conv2d(in_channels, out_channels, 1, stride, 0, 1, FALSE),
                                     get_norm(normalization, out_channels) >>]
    IN  [kind |-> "ResNetEncodeBlock",
         block |-> ResNetBlock(in_channels, out_channels, stride, downsample,
                               normalization, activation)]

ResNetEncodeBlock_forward(m, x) == ResNetBlock_forward(m.block, x)

\* ------------------------------------------------ DecodeBlock (lines 108-133)
\* line 121: padding=kernel_size//2
DecodePadding_Zero(kernel_size) == 0

DecodePadding(kernel_size) == kernel_size \div 2

DecodeBlock(c_from_up, c_from_down, c_out, mode, kernel_size, scale, normalization, activation) ==
    LET c_in == c_from_up + c_from_down
    IN  [kind |-> "DecodeBlock",
         c_from_up |-> c_from_up, c_from_down |-> c_from_down,
         c_in |-> c_in, c_out |-> c_out,
         up |-> UpBlock(mode, scale, c_from_up, scale),
         decode |-> << DepthwiseSeparableConv(c_in, c_out, kernel_size, 1, DecodePadding(kernel_size)) >>
                    \o (IF Truthy(normalization) THEN << get_norm(normalization, c_out) >> ELSE <<>>)
                    \o (IF Truthy(activation) THEN << get_activation(activation) >> ELSE <<>>)]

DecodeBlock_forward(m, x, concat) ==
    LET up == UpBlock_forward(m.up, x)
        out == IF m.c_from_down > 0 THEN cat(up, concat) ELSE up
    IN  Sequential_forward(m.decode, out)

\* ------------------------------------------------ BlendBlock (lines 136-152)
BlendBlock(c_in, c_out, ksize_mid, norm, act) ==
    LET c_mid == Max(c_in \div 2, 32)
    IN  [kind |-> "BlendBlock", c_in |-> c_in,
         blend |-> << DepthwiseSeparableConv(c_in, c_mid, 1, 1, 0),
                      get_norm(norm, c_mid),
                      get_activation(act),
                      DepthwiseSeparableConv(c_mid, c_out, ksize_mid, 1, ksize_mid \div 2),
                      get_norm(norm, c_out),
                      get_activation(act),
                      DepthwiseSeparableConv(c_out, c_out, 1, 1, 0),
                      [kind |-> "Sigmoid"] >>]

BlendBlock_forward(m, x) == Sequential_forward(m.blend, x)

\* ------------------------------------------------ FusionBlock (lines 155-169)
\* utils.resize_like (not in src/): the source resampled to the target's
\* height and width, batch and channels kept
resize_like(x, target) ==
    IF IsErr(x) THEN x ELSE IF IsErr(target) THEN target
    ELSE T(x.n, x.c, target.h, target.w)

\* a pixel of a nearest/bilinear resampling lies within the source's range
ResizeVals(vals) ==
    LET lo == CHOOSE a \in vals : \A b \in vals : a <= b
        hi == CHOOSE a \in vals : \A b \in vals : b <= a
    IN  lo..hi

FusionBlock(c_feat, c_alpha) ==
    LET c_img == 3
    IN  [kind |-> "FusionBlock",
         map2img |-> << DepthwiseSeparableConv(c_feat, c_img, 1, 1, 0), [kind |-> "Sigmoid"] >>,
         blend |-> BlendBlock(c_img * 2, c_alpha, 3, "batch", "leaky_relu")]

\* values a layer stack can put out at a pixel: a trailing sigmoid bounds
\* them to [0, 1], anything else does not
OutVals(layers) ==
    IF layers # <<>> /\ layers[Len(layers)].kind = "Sigmoid" THEN 0..Q ELSE (-1)..(Q + 1)

\* the values the forward pass of a fusion block can see at one pixel
FusionSamples(m, imgvals) ==
    [v_img : ResizeVals(imgvals), v_raw : OutVals(m.map2img), v_alpha : OutVals(m.blend.blend)]

\* result = alpha * raw + (1 - alpha) * img_miss at one pixel, alpha, raw and
\* img_miss in units of 1/Q, the result in units of 1/(Q*Q)
BlendPixel_PlusAlpha(alpha, raw, img) == alpha * raw + (Q + alpha) * img

BlendPixel(alpha, raw, img) == alpha * raw + (Q - alpha) * img

\* v_raw and v_alpha are the sigmoid outputs at the sampled pixel, v_img the
\* resized image's value there
FusionBlock_forward(m, img_miss, feat_de, v_img, v_raw, v_alpha) ==
    LET img == resize_like(img_miss, feat_de)
        raw == Sequential_forward(m.map2img, feat_de)
        alpha == BlendBlock_forward(m.blend, cat(img, raw))
        result == Broadcast(Broadcast(alpha, raw), Broadcast(alpha, img))
    IN  IF IsErr(result) THEN result
        ELSE [result |-> result, alpha |-> alpha, raw |-> raw, img |-> img,
              v_result |-> BlendPixel(v_alpha, v_raw, v_img),
              v_alpha |-> v_alpha, v_raw |-> v_raw, v_img |-> v_img]

\* ======================================================================
\* State
\* ======================================================================
VARIABLES
    unit, blk, y, upc,          \* block harness: case, module, output, position
    cfg,                        \* constructor arguments and forward inputs
    pc, i,                      \* position in __init__ / forward, loop index
    n_en, n_de, en, de, fuse,   \* fields of the network object
    attrs,                      \* attributes registered with __setattr__
    out, out_en,                \* forward: current features, skip list
    results, alphas, raws,      \* forward: recorded fusion outputs (a result
                                \* with its value at the sampled pixel)
    de_in,                      \* what each decoder stage received
    ret                         \* what forward returned

uvars == << unit, blk, y, upc >>

nvars == << cfg, pc, i, n_en, n_de, en, de, fuse, attrs, out, out_en,
            results, alphas, raws, de_in, ret >>

vars == << unit, blk, y, upc, cfg, pc, i, n_en, n_de, en, de, fuse, attrs, out, out_en,
           results, alphas, raws, de_in, ret >>

\* ======================================================================
\* Block harness: one block is constructed with arguments drawn from small
\* sets and its forward pass is applied once to an input.
\* ======================================================================
Sizes == 1..MaxSize

NormNames == {"batch", "instance", "none", "", PyNone}

ActNames == {"relu", "tanh", "none", PyNone}

NoSample == [v_img |-> 0, v_raw |-> 0, v_alpha |-> 0]

DscCases ==
    { [kind |-> "DepthwiseSeparableConv",
       a |-> [in_channels |-> ci, out_channels |-> co, kernel_size |-> k,
              stride |-> 1, padding |-> p],
       x |-> T(2, ci, h, w)] :
      ci \in {3, 8}, co \in {3, 16}, k \in {1, 3}, p \in {0, 1}, h \in Sizes, w \in Sizes }

UpCases ==
    { [kind |-> "UpBlock",
       a |-> [mode |-> m, scale |-> 2, channel |-> 3, kernel_size |-> k],
       x |-> T(2, 3, h, w)] :
      m \in {"nearest", "bilinear", "deconv", "cubic"}, k \in {4, 2}, h \in Sizes, w \in Sizes }

ResCases ==
    { [kind |-> "ResNetBlock",
       a |-> [in_channels |-> ci, out_channels |-> co, stride |-> st,
              normalization |-> nm, activation |-> ac],
       x |-> T(2, ci, h, w)] :
      ci \in {3, 8}, co \in {3, 8}, st \in {1, 2}, nm \in NormNames, ac \in ActNames,
      h \in Sizes, w \in Sizes }

EncCases ==
    { [kind |-> "ResNetEncodeBlock",
       a |-> [in_channels |-> ci, out_channels |-> co, stride |-> 2,
              normalization |-> nm, activation |-> ac],
       x |-> T(2, ci, h, w)] :
      ci \in {3, 8}, co \in {3, 8}, nm \in NormNames, ac \in ActNames,
      h \in Sizes, w \in Sizes }

DecCases ==
    { [kind |-> "DecodeBlock",
       a |-> [c_from_up |-> cu, c_from_down |-> cd, c_out |-> 3, mode |-> m,
              kernel_size |-> k, scale |-> 2, normalization |-> nm, activation |-> ac],
       x |-> T(2, cu, h, w),
       concat |-> T(2, cd, 2 * h - d, 2 * w - d)] :
      cu \in {3, 8}, cd \in {0, 3}, m \in {"nearest", "deconv"}, k \in {3, 4},
      nm \in NormNames, ac \in ActNames, h \in Sizes, w \in Sizes, d \in {0, 1} }

BlendCases ==
    { [kind |-> "BlendBlock",
       a |-> [c_in |-> ci, c_out |-> co, ksize_mid |-> 3, norm |-> nm, act |-> ac],
       x |-> T(2, ci, h, w)] :
      ci \in {2, 6}, co \in {1, 3}, nm \in NormNames, ac \in ActNames,
      h \in Sizes, w \in Sizes }

FuseCases ==
    { [kind |-> "FusionBlock",
       a |-> [c_feat |-> cf, c_alpha |-> ca],
       x |-> T(2, cf, h, w),
       img_miss |-> T(2, ci, MaxSize, MaxSize),
       vals |-> vs] :
      cf \in {3, 8}, ca \in {1, 2, 3}, ci \in {1, 3}, h \in Sizes, w \in Sizes,
      vs \in {0..Q, (-1)..(Q + 1)} }

UnitCases == DscCases \cup UpCases \cup ResCases \cup EncCases \cup DecCases
             \cup BlendCases \cup FuseCases

\* the constructor call of the block under test
Build(u) ==
    CASE u.kind = "DepthwiseSeparableConv" ->
            DepthwiseSeparableConv(u.a.in_channels, u.a.out_channels, u.a.kernel_size,
                                   u.a.stride, u.a.padding)
      [] u.kind = "UpBlock" ->
            UpBlock(u.a.mode, u.a.scale, u.a.channel, u.a.kernel_size)
      [] u.kind = "ResNetBlock" ->
            ResNetBlock(u.a.in_channels, u.a.out_channels, u.a.stride, NoneMod,
                        u.a.normalization, u.a.activation)
      [] u.kind = "ResNetEncodeBlock" ->
            ResNetEncodeBlock(u.a.in_channels, u.a.out_channels, u.a.stride,
                              u.a.normalization, u.a.activation)
      [] u.kind = "DecodeBlock" ->
            DecodeBlock(u.a.c_from_up, u.a.c_from_down, u.a.c_out, u.a.mode,
                        u.a.kernel_size, u.a.scale, u.a.normalization, u.a.activation)
      [] u.kind = "BlendBlock" ->
            BlendBlock(u.a.c_in, u.a.c_out, u.a.ksize_mid, u.a.norm, u.a.act)
      [] u.kind = "FusionBlock" ->
            FusionBlock(u.a.c_feat, u.a.c_alpha)

\* the forward call of the block under test
Run(m, u, smp) ==
    CASE u.kind = "DepthwiseSeparableConv" -> DepthwiseSeparableConv_forward(m, u.x)
      [] u.kind = "UpBlock" -> UpBlock_forward(m, u.x)
      [] u.kind = "ResNetBlock" -> ResNetBlock_forward(m, u.x)
      [] u.kind = "ResNetEncodeBlock" -> ResNetEncodeBlock_forward(m, u.x)
      [] u.kind = "DecodeBlock" -> DecodeBlock_forward(m, u.x, u.concat)
      [] u.kind = "BlendBlock" -> BlendBlock_forward(m, u.x)
      [] u.kind = "FusionBlock" ->
            FusionBlock_forward(m, u.img_miss, u.x, smp.v_img, smp.v_raw, smp.v_alpha)

Unbuilt == [kind |-> "unbuilt"]

NoTensor == [none |-> TRUE]

UnitIdle ==
    /\ unit = [kind |-> "none"]
    /\ blk = Unbuilt
    /\ y = NoTensor
    /\ upc = "idle"

NetIdle ==
    /\ cfg = [kind |-> "none"]
    /\ pc = "idle"
    /\ i = 0
    /\ n_en = 0 /\ n_de = 0
    /\ en = <<>> /\ de = <<>> /\ fuse = <<>>
    /\ attrs = {}
    /\ out = NoTensor /\ out_en = <<>>
    /\ results = <<>> /\ alphas = <<>> /\ raws = <<>>
    /\ de_in = <<>>
    /\ ret = "unset"

InitBlocks ==
    /\ unit \in UnitCases
    /\ blk = Unbuilt
    /\ y = NoTensor
    /\ upc = "new"
    /\ NetIdle

UnitConstruct ==
    /\ upc = "new"
    /\ blk' = Build(unit)
    /\ upc' = "built"
    /\ UNCHANGED << unit, y >>
    /\ UNCHANGED nvars

UnitForward ==
    /\ upc = "built"
    /\ \E smp \in (IF unit.kind = "FusionBlock" THEN FusionSamples(blk, unit.vals)
                   ELSE {NoSample}) :
          y' = Run(blk, unit, smp)
    /\ upc' = "done"
    /\ UNCHANGED << unit, blk >>
    /\ UNCHANGED nvars

NextBlocks == UnitConstruct \/ UnitForward

SpecBlocks == InitBlocks /\ [][NextBlocks]_vars

\* ======================================================================
\* ResNetDFNet (lines 172-234): __init__ and forward, one step per
\* loop iteration
\* ======================================================================
RECURSIVE SeqsUpTo(_, _)
\* all sequences over S of length at most n
SeqsUpTo(S, n) ==
    IF n = 0 THEN { <<>> }
    ELSE LET shorter == SeqsUpTo(S, n - 1)
         IN  shorter \cup { Append(q, e) : q \in { r \in shorter : Len(r) = n - 1 }, e \in S }

RECURSIVE Pow2(_)
Pow2(k) == IF k = 0 THEN 1 ELSE 2 * Pow2(k - 1)

\* encoder channel lists: 8, 16, 32, ... doubling per stage like the
\* default [64, 128, 256, 512]
EnChannelLists == { [k \in 1..n |-> 8 * Pow2(k - 1)] : n \in 0..MaxEn }

NetConfigs ==
    [c_img : {1, 3}, c_mask : {1}, c_alpha : {3}, mode : {"nearest", "deconv"},
     norm : {"batch", "none"}, act_en : {"relu"}, act_de : {"leaky_relu"},
     en_channels : EnChannelLists,
     de_ksize : SeqsUpTo({3, 4}, MaxDe),
     blend_layers : SUBSET (0..(MaxDe - 1)),
     batch : {2}, height : Sizes, width : Sizes,
     vals : {0..Q}]

\* line 181: assert 0 in blend_layers
AssertBlend_Skipped(blend_layers) == TRUE

AssertBlend(blend_layers) == 0 \in blend_layers

RECURSIVE BuildEncoders(_, _, _, _)
\* lines 184-188: the encoder loop
BuildEncoders(c_in, en_channels, norm, act_en) ==
    IF en_channels = <<>> THEN <<>>
    ELSE << ResNetEncodeBlock(c_in, Head(en_channels), 2, norm, act_en) >>
         \o BuildEncoders(Head(en_channels), Tail(en_channels), norm, act_en)

\* line 199: index of the encoder stage mirrored by decoder stage k
MirrorIndex(k) == -k - 1

\* line 229: index of the skip tensor decoder stage k consumes
SkipIndex_OffByOne(k) == -k - 1

SkipIndex(k) == -k - 2

\* line 200
LayerIdx(k) == n_de - k - 1

\* lines 175-181
CtorBegin ==
    /\ pc = "new"
    /\ n_en' = Len(cfg.en_channels)
    /\ n_de' = Len(cfg.de_ksize)
    /\ pc' = IF AssertBlend(cfg.blend_layers) THEN "ctor_en" ELSE "AssertionError"
    /\ UNCHANGED << cfg, i, en, de, fuse, attrs, out, out_en, results, alphas, raws, de_in, ret >>
    /\ UNCHANGED uvars

\* lines 184-196
CtorEncoders ==
    /\ pc = "ctor_en"
    /\ en' = BuildEncoders(cfg.c_img + cfg.c_mask, cfg.en_channels, cfg.norm, cfg.act_en)
    /\ attrs' = attrs \cup { << "en", k >> : k \in 0..(n_en - 1) }
    /\ de' = <<>>
    /\ fuse' = <<>>
    /\ i' = 0
    /\ pc' = "ctor_de"
    /\ UNCHANGED << cfg, n_en, n_de, out, out_en, results, alphas, raws, de_in, ret >>
    /\ UNCHANGED uvars

\* lines 197-215: one iteration of the decoder loop, or the registration
\* of the decoder and fusion stages once the loop is over
CtorDecoder ==
    /\ pc = "ctor_de"
    /\ IF i < n_de
       THEN LET up_idx == PyIndex(en, -1)
                dn_idx == PyIndex(en, MirrorIndex(i))
            IN  IF (i = 0 /\ up_idx = 0) \/ dn_idx = 0
                THEN /\ pc' = "IndexError"
                     /\ UNCHANGED << i, de, fuse, attrs >>
                ELSE LET c_from_up == IF i = 0 THEN en[up_idx].block.conv2.out_channels
                                      ELSE de[Len(de)].c_out
                         c_from_down == en[dn_idx].block.conv1.in_channels
                         c_out == c_from_down
                     IN  /\ de' = Append(de, DecodeBlock(c_from_up, c_from_down, c_out, cfg.mode,
                                                         cfg.de_ksize[i + 1], 2, cfg.norm, cfg.act_de))
                         /\ fuse' = Append(fuse, IF LayerIdx(i) \in cfg.blend_layers
                                                 THEN FusionBlock(c_out, cfg.c_alpha)
                                                 ELSE NoneMod)
                         /\ i' = i + 1
                         /\ UNCHANGED << pc, attrs >>
       ELSE /\ attrs' = attrs \cup { << "de", k >> : k \in 0..(n_de - 1) }
                        \cup { << "fuse", k >> : k \in { j \in 0..(n_de - 1) : ~IsNone(fuse[n_de - j]) } }
            /\ pc' = "built"
            /\ i' = 0
            /\ UNCHANGED << de, fuse >>
    /\ UNCHANGED << cfg, n_en, n_de, en, out, out_en, results, alphas, raws, de_in, ret >>
    /\ UNCHANGED uvars

\* the tensors handed to forward
InputImage == T(cfg.batch, cfg.c_img, cfg.height, cfg.width)

InputMask == T(cfg.batch, cfg.c_mask, cfg.height, cfg.width)

\* lines 218-220
FwdBegin ==
    /\ pc = "built"
    /\ out' = cat(InputImage, InputMask)
    /\ out_en' = << out' >>
    /\ i' = 0
    /\ pc' = "encode"
    /\ UNCHANGED << cfg, n_en, n_de, en, de, fuse, attrs, results, alphas, raws, de_in, ret >>
    /\ UNCHANGED uvars

\* lines 221-227: one iteration of the encoder loop, or the set-up of the
\* result lists once the loop is over
FwdEncode ==
    /\ pc = "encode"
    /\ IF i < Len(en)
       THEN LET o == ResNetEncodeBlock_forward(en[i + 1], out)
            IN  /\ out' = o
                /\ IF IsErr(o)
                   THEN pc' = "raised" /\ UNCHANGED << out_en, i >>
                   ELSE pc' = pc /\ out_en' = Append(out_en, o) /\ i' = i + 1
                /\ UNCHANGED << results, alphas, raws >>
       ELSE /\ results' = <<>> /\ alphas' = <<>> /\ raws' = <<>>
            /\ i' = 0
            /\ pc' = "decode"
            /\ UNCHANGED << out, out_en >>
    /\ UNCHANGED << cfg, n_en, n_de, en, de, fuse, attrs, de_in, ret >>
    /\ UNCHANGED uvars

\* lines 228-234: one iteration of the decoder loop (raws is named but
\* never appended to), or the end of the function, which returns None
FwdDecode ==
    /\ pc = "decode"
    /\ IF i < Len(de)
       THEN LET idx == PyIndex(out_en, SkipIndex(i))
            IN  IF idx = 0
                THEN /\ pc' = "raised"
                     /\ out' = Err("IndexError")
                     /\ UNCHANGED << results, alphas, raws, de_in, i >>
                ELSE LET o == DecodeBlock_forward(de[i + 1], out, out_en[idx])
                         fusing == ~IsNone(fuse[i + 1]) /\ ~IsErr(o)
                     IN  /\ de_in' = Append(de_in, [x |-> out, concat |-> out_en[idx], idx |-> idx - 1])
                         /\ \E smp \in (IF fusing THEN FusionSamples(fuse[i + 1], cfg.vals)
                                        ELSE {NoSample}) :
                              LET f == IF fusing
                                       THEN FusionBlock_forward(fuse[i + 1], InputImage, o,
                                                                smp.v_img, smp.v_raw, smp.v_alpha)
                                       ELSE NoTensor
                              IN  /\ out' = IF IsErr(o) THEN o ELSE IF fusing /\ IsErr(f) THEN f ELSE o
                                  /\ IF IsErr(o) \/ (fusing /\ IsErr(f))
                                     THEN pc' = "raised" /\ UNCHANGED << results, alphas, i >>
                                     ELSE /\ pc' = pc
                                          /\ i' = i + 1
                                          /\ IF fusing
                                             THEN /\ results' = Append(results, [t |-> f.result, v |-> f.v_result])
                                                  /\ alphas' = Append(alphas, [t |-> f.alpha])
                                             ELSE UNCHANGED << results, alphas >>
                         /\ UNCHANGED raws
            /\ UNCHANGED ret
       ELSE /\ pc' = "returned"
            /\ ret' = PyNone
            /\ UNCHANGED << out, results, alphas, raws, de_in, i >>
    /\ UNCHANGED << cfg, n_en, n_de, en, de, fuse, attrs, out_en >>
    /\ UNCHANGED uvars

InitNet ==
    /\ cfg \in NetConfigs
    /\ pc = "new"
    /\ i = 0
    /\ n_en = 0 /\ n_de = 0
    /\ en = <<>> /\ de = <<>> /\ fuse = <<>>
    /\ attrs = {}
    /\ out = NoTensor /\ out_en = <<>>
    /\ results = <<>> /\ alphas = <<>> /\ raws = <<>>
    /\ de_in = <<>>
    /\ ret = "unset"
    /\ UnitIdle

Next == CtorBegin \/ CtorEncoders \/ CtorDecoder \/ FwdBegin \/ FwdEncode \/ FwdDecode

Spec == InitNet /\ [][Next]_vars

\* ----------------------------------------------------------------------
\* The end-to-end scenario of the spec: the default network on a batch of
\* two 3x256x256 images with 1x256x256 masks
\* ----------------------------------------------------------------------
E2EConfigs ==
    [c_img : {3}, c_mask : {1}, c_alpha : {3}, mode : {"nearest"},
     norm : {"batch"}, act_en : {"relu"}, act_de : {"leaky_relu"},
     en_channels : { << 64, 128, 256, 512 >> },
     de_ksize : { << 3, 3, 3, 3 >> },
     blend_layers : { {0, 1, 2, 3} },
     batch : {2}, height : {256}, width : {256},
     vals : {0..Q}]

InitE2E ==
    /\ cfg \in E2EConfigs
    /\ pc = "new"
    /\ i = 0
    /\ n_en = 0 /\ n_de = 0
    /\ en = <<>> /\ de = <<>> /\ fuse = <<>>
    /\ attrs = {}
    /\ out = NoTensor /\ out_en = <<>>
    /\ results = <<>> /\ alphas = <<>> /\ raws = <<>>
    /\ de_in = <<>>
    /\ ret = "unset"
    /\ UnitIdle

SpecE2E == InitE2E /\ [][Next]_vars

\* ======================================================================
\* Claims about single blocks (SpecBlocks)
\* ======================================================================
ConsumingKinds == {"ResNetBlock", "ResNetEncodeBlock", "DecodeBlock", "BlendBlock"}

NormOf(u) == IF u.kind = "BlendBlock" THEN u.a.norm ELSE u.a.normalization

WithNorm(u, nm) ==
    IF u.kind = "BlendBlock" THEN [u EXCEPT !.a.norm = nm]
    ELSE [u EXCEPT !.a.normalization = nm]

FusionRan == upc = "done" /\ unit.kind = "FusionBlock" /\ ~IsErr(y)

\* C4: in a fusion stage alpha and raw lie in [0,1] at every pixel, the
\* result alpha*raw + (1-alpha)*img lies between raw and the resized image,
\* equals the image where alpha = 0 and raw where alpha = 1.
C4_FusionConvex ==
    FusionRan =>
        /\ 0 <= y.v_alpha /\ y.v_alpha <= Q
        /\ 0 <= y.v_raw /\ y.v_raw <= Q
        /\ Min(y.v_raw, y.v_img) * Q <= y.v_result
        /\ y.v_result <= Max(y.v_raw, y.v_img) * Q
        /\ (y.v_alpha = 0 => y.v_result = y.v_img * Q)
        /\ (y.v_alpha = Q => y.v_result = y.v_raw * Q)

\* a fusion stage that ran with alpha strictly inside (0,1) and raw
\* different from the image
C4_Witness ==
    /\ FusionRan
    /\ 0 < y.v_alpha /\ y.v_alpha < Q
    /\ y.v_raw # y.v_img
    /\ y.v_result # y.v_raw * Q /\ y.v_result # y.v_img * Q

\* C5: with a normalization name that is empty, None or unrecognized every
\* consuming block runs its forward pass without error and yields the shape
\* it yields with norm = 'batch'.
C5_NormOmittedPassThrough ==
    (/\ upc = "done"
     /\ unit.kind \in ConsumingKinds
     /\ NormOf(unit) \notin {"batch", "instance"}
     /\ unit.a[IF unit.kind = "BlendBlock" THEN "act" ELSE "activation"] \in {"relu", "tanh"}
     /\ ~IsErr(Run(Build(WithNorm(unit, "batch")), unit, NoSample)))
    => /\ ~IsErr(y)
       /\ y = Run(Build(WithNorm(unit, "batch")), unit, NoSample)

DscBuilt == upc # "new" /\ unit.kind = "DepthwiseSeparableConv"

\* C6 as stated: the trainable parameter count of DepthwiseSeparableConv
\* (c_in, c_out, k) is c_in*k*k + c_in*c_out.
C6_WeightsOnlyCount ==
    DscBuilt =>
        DepthwiseSeparableConv_params(blk)
            = unit.a.in_channels * unit.a.kernel_size * unit.a.kernel_size
              + unit.a.in_channels * unit.a.out_channels

\* C6 amended: the count is c_in*k*k + c_in*c_out weights plus c_in + c_out
\* biases; for (8, 16, 3) that is 200 + 24 = 224, below the 1152 weights of
\* a dense convolution.
C6_ParamCount ==
    DscBuilt =>
        LET ci == unit.a.in_channels
            co == unit.a.out_channels
            k == unit.a.kernel_size
            dense == Conv2d_params(Conv2d(ci, co, k, 1, 0, 1, FALSE))
        IN  /\ DepthwiseSeparableConv_params(blk) = ci * k * k + ci * co + ci + co
            /\ (ci = 8 /\ co = 16 /\ k = 3) =>
                  /\ DepthwiseSeparableConv_params(blk) = 224
                  /\ dense = 1152
                  /\ DepthwiseSeparableConv_params(blk) < dense

\* the (8, 16, 3) block of the claim has been constructed
C6_Witness ==
    /\ DscBuilt
    /\ unit.a.in_channels = 8 /\ unit.a.out_channels = 16 /\ unit.a.kernel_size = 3

\* C9: an UpBlock in 'deconv' mode with scale 2 doubles height and width,
\* for kernel_size 4 and for kernel_size 2.
C9_DeconvDoubles ==
    (upc = "done" /\ unit.kind = "UpBlock" /\ unit.a.mode = "deconv")
    => /\ ~IsErr(y)
       /\ y.h = 2 * unit.x.h
       /\ y.w = 2 * unit.x.w

\* ======================================================================
\* Claims about the network (Spec, SpecE2E)
\* ======================================================================
Finished == pc \in {"returned", "raised"}

LastResult == results[Len(results)]

\* C1: with 0 not among blend_layers construction fails at the assertion,
\* before any encoder stage, decoder stage or fusion block is built.
C1_AssertBeforeBuild ==
    (pc # "new" /\ 0 \notin cfg.blend_layers)
    => /\ pc = "AssertionError"
       /\ en = <<>> /\ de = <<>> /\ fuse = <<>>
       /\ attrs = {}

\* the assertion failed for a configuration that asks for stages
C1_Witness ==
    /\ pc = "AssertionError"
    /\ Len(cfg.en_channels) > 0 /\ Len(cfg.de_ksize) > 0
    /\ cfg.blend_layers # {}

\* C2 as stated: for any valid construction and any input height and width
\* the forward pass ends with a depth-0 result of the input's height and
\* width (here already for a recognized norm, 3 image channels and an
\* interpolating upsampling mode).
C2_OutputSizeAnyInput ==
    (/\ Finished /\ n_de >= 1
     /\ cfg.norm = "batch" /\ cfg.c_img = 3 /\ cfg.mode = "nearest")
    => /\ pc = "returned"
       /\ results # <<>>
       /\ LastResult.t.h = cfg.height
       /\ LastResult.t.w = cfg.width

\* C2 amended: with as many decoder as encoder stages and an odd last
\* decoder kernel, a forward pass that runs through every stage ends with a
\* depth-0 result of the input's height and width; with an interpolating
\* mode it runs through only if height and width are multiples of 2^n_en.
C2_OutputSizeWhenAligned ==
    (pc = "returned" /\ n_de = n_en /\ n_de >= 1)
    => /\ (cfg.de_ksize[n_de] % 2 = 1) =>
             /\ results # <<>>
             /\ LastResult.t.h = cfg.height /\ LastResult.t.w = cfg.width
             /\ out.h = cfg.height /\ out.w = cfg.width
       /\ (cfg.mode # "deconv") =>
             /\ cfg.height % Pow2(n_en) = 0
             /\ cfg.width % Pow2(n_en) = 0

\* a network of at least two stages returned from a forward pass
C2_Witness ==
    /\ pc = "returned" /\ n_de = n_en /\ n_de >= 2
    /\ cfg.de_ksize[n_de] % 2 = 1
    /\ cfg.mode = "nearest"
    /\ cfg.height > 1

\* C3 as stated: the scenario yields 4 results, each of shape
\* [2,3,256,256], with values in [0,1].
C3_AllResultsAtInputSize ==
    Finished =>
        /\ pc = "returned"
        /\ Len(results) = 4
        /\ \A k \in 1..Len(results) :
              /\ results[k].t = T(2, 3, 256, 256)
              /\ 0 <= results[k].v /\ results[k].v <= Q * Q

\* C3 amended: the scenario records 4 results of shapes [2,3,32,32],
\* [2,3,64,64], [2,3,128,128] and [2,3,256,256] (each at its decoder
\* stage's resolution), with values in [0,1].
C3_ResultsPerScale ==
    Finished =>
        /\ pc = "returned"
        /\ Len(results) = 4
        /\ \A k \in 1..Len(results) :
              /\ results[k].t = T(2, 3, 32 * Pow2(k - 1), 32 * Pow2(k - 1))
              /\ 0 <= results[k].v /\ results[k].v <= Q * Q

\* the scenario's forward pass returned with a blended value strictly
\* inside (0,1) at full resolution
C3_Witness ==
    /\ pc = "returned" /\ Len(results) = 4
    /\ cfg.height = 256 /\ cfg.batch = 2
    /\ 0 < results[4].v /\ results[4].v < Q * Q
    /\ results[1].t.h = 32

\* C7: when decoding starts the skip list has n_en + 1 elements; decoder
\* stage k receives skip element n_en - k - 1, whose channel count is the
\* stage's c_from_down, and features whose channel count is its c_from_up;
\* a construction that succeeded has n_de <= n_en.
C7_SkipAlignment ==
    /\ (pc \in {"built", "encode", "decode", "returned", "raised"}) => n_de <= n_en
    /\ (pc = "decode") => Len(out_en) = n_en + 1
    /\ \A k \in 1..Len(de_in) :
          /\ Len(out_en) = n_en + 1
          /\ de_in[k].idx = n_en - (k - 1) - 1
          /\ de_in[k].concat = out_en[n_en - (k - 1)]
          /\ de_in[k].concat.c = de[k].c_from_down
          /\ de_in[k].x.c = de[k].c_from_up

\* two decoder stages have received their inputs
C7_Witness ==
    /\ Len(de_in) >= 2
    /\ pc = "returned"

\* C8: when the decoder loop ends, results, alphas and raws each hold one
\* entry per stage whose depth is in blend_layers and none for the others.
C8_TriplesRecorded ==
    (pc = "returned") =>
        LET fused == { k \in 0..(n_de - 1) : LayerIdx(k) \in cfg.blend_layers }
        IN  /\ Len(results) = Cardinality(fused)
            /\ Len(alphas) = Cardinality(fused)
            /\ Len(raws) = Cardinality(fused)

\* C10: every fusion stage's blend block is built for 2 x c_img input
\* channels, the channel count of cat([resized image, raw]).
C10_BlendInputChannels ==
    \A k \in 1..Len(fuse) :
        ~IsNone(fuse[k]) =>
            /\ fuse[k].blend.c_in = 2 * cfg.c_img
            /\ fuse[k].blend.c_in = cfg.c_img + fuse[k].map2img[1].pointwise.out_channels

====
